---- MODULE Spec2Model ----
(***************************************************************************)
(* A model of TerminalSessionManager                                       *)
(* (src/src/renderer/terminal/TerminalSessionManager.ts): one terminal     *)
(* session, its process transport (window.electronAPI), its snapshot       *)
(* store and its four listener registries.                                 *)
(*                                                                         *)
(* Strings are sequences of tokens; a token is one chunk of process output *)
(* (named by a string, with a byte length) or the truncation notice.       *)
(* Time is in milliseconds.                                                *)
(***************************************************************************)
EXTENDS Integers, Sequences, FiniteSets, TLC

\* ------------------------------------------------------------ bounds
MaxTicks == 3          \* the clock advances at most this many short steps between two intervals
MaxIntervals == 1      \* the clock advances at most this many snapshot intervals
MaxTasks == 2          \* capture tasks alive at once
ScrollbackLines == 3   \* tokens the terminal buffer retains (options.scrollbackLines)
MaxDisposeCalls == 2   \* dispose() calls counted
MaxInputs == 1         \* ptyInput requests
MaxListeners == 3      \* listeners registered at once, over the four channels

\* ------------------------------------------------------------ program constants
SNAPSHOT_INTERVAL_MS == 120000
DEBOUNCE_MS == 1500
TERMINAL_SNAPSHOT_VERSION == 1
MAX_DATA_WINDOW_BYTES == 134217728

TimeStepMs == DEBOUNCE_MS \div 3
StartTime == TimeStepMs

Surfaces == {"A", "B"}
Host == "host"
NoContainer == "none"
Channels == {"activity", "ready", "error", "exit"}
Reasons == {"interval", "detach", "dispose"}
NoReason == "none"
NoTask == 0
NoSize == <<0, 0>>

\* options.initialSize, and the size FitAddon proposes inside each surface as it is
\* first laid out; Boxes are the sizes a surface can be given by a later layout
InitialSize == <<80, 24>>
SurfaceSize(c) == IF c = "A" THEN <<100, 30>> ELSE <<120, 40>>

Boxes == {<<100, 30>>, <<120, 40>>, <<100, 40>>}

NoSnapshot == [version |-> -1, cols |-> 0, rows |-> 0, data |-> <<>>]

\* The collaborator calls of dispose() and detach() that may throw: moving the
\* container to the holding area, ptyKill, a cleanup function, metrics.dispose().
Faults == {"detach", "kill", "cleanup", "metrics"}

\* serializeAddon.serialize() throws whenever a capture task calls it.
SerializeFault == "serialize"

\* Public calls are recorded once lastCall holds NoCall; Unrecorded switches it off.
Unrecorded == [op |-> "unrecorded", arg |-> "none", attached |-> "none", disposed |-> FALSE]
NoCall == [op |-> "none", arg |-> "none", attached |-> "none", disposed |-> FALSE]

VARIABLES
    disposed,            \* this.disposed
    attachedContainer,   \* this.attachedContainer (NoContainer = null)
    resizeObserver,      \* this.resizeObserver # null
    containerParent,     \* the DOM parent of this.container
    opened,              \* this.opened
    disposables,         \* this.disposables: the subscriptions the cleanups end
    snapshotTimer,       \* this.snapshotTimer # null
    tickDueAt,           \* when the setInterval callback is next due
    pendingSnapshot,     \* this.pendingSnapshot (a task id, NoTask = null)
    listeners,           \* the four Sets, in insertion order
    firstFrameRendered,  \* this.firstFrameRendered
    ptyStarted,          \* this.ptyStarted
    lastSnapshotAt,      \* this.lastSnapshotAt (0 = null)
    lastSnapshotReason,  \* this.lastSnapshotReason (NoReason = null)
    size,                \* <<terminal.cols, terminal.rows>>
    buffer,              \* what serializeAddon.serialize() would return
    terminalDisposed,    \* terminal.dispose() was called
    windowBytes,         \* TerminalMetrics: bytes admitted since the last reset
    subs,                \* live subscriptions: terminal.onData/onResize, onPtyData/Exit/Started
    rafPending,          \* a requestAnimationFrame callback of attach is scheduled
    tasks,               \* capture tasks not yet finished
    phase,               \* the constructor's chain: restoring, starting, started, failed
    proc,                \* the transport's process: none, running, exited
    startCalls,          \* ptyStart requests
    startSize,           \* cols/rows of the last ptyStart request
    killCalls,           \* ptyKill requests
    ptySize,             \* cols/rows of the last ptyResize request
    inputCalls,          \* ptyInput requests
    stored,              \* the snapshot the store holds for this id
    hasSaveApi,          \* window.electronAPI.ptySaveSnapshot is defined
    hasGetApi,           \* window.electronAPI.ptyGetSnapshot is defined
    lastEmit,            \* the last fan-out: channel, listeners registered, listeners invoked
    thrown,              \* the exception that escaped the last handler
    calls,               \* dispose() calls made
    lastCapture,         \* the last captureSnapshot call: its reason and how it ended
    detachCapturedAt,    \* when the last detach capture that was not skipped began (0 = never)
    fault,               \* the collaborator call that throws when it is made ("none": none does)
    teardown,            \* the steps dispose() has carried out, in order
    lastCall,            \* the last public method called and the state it found, when recorded
    emitCount,           \* fan-outs so far on the ready and on the error channel
    layout,              \* the size FitAddon proposes inside each surface, as laid out now
    now                  \* Date.now()

vars == <<disposed, attachedContainer, resizeObserver, containerParent, opened,
          disposables, snapshotTimer, tickDueAt, pendingSnapshot, listeners,
          firstFrameRendered, ptyStarted, lastSnapshotAt, lastSnapshotReason, size, buffer,
          terminalDisposed, windowBytes, subs, rafPending, tasks,
          phase, proc, startCalls, startSize, killCalls, ptySize, inputCalls,
          stored, hasSaveApi, hasGetApi, lastEmit, thrown,
          calls, lastCapture, detachCapturedAt, fault, teardown, lastCall, emitCount,
          layout, now>>

\* The state as one record, so that a method is a function from state to state
\* and one method can call another.
World ==
    [disposed |-> disposed, attachedContainer |-> attachedContainer,
     resizeObserver |-> resizeObserver, containerParent |-> containerParent,
     opened |-> opened, disposables |-> disposables, snapshotTimer |-> snapshotTimer,
     tickDueAt |-> tickDueAt,
     pendingSnapshot |-> pendingSnapshot, listeners |-> listeners,
     firstFrameRendered |-> firstFrameRendered, ptyStarted |-> ptyStarted,
     lastSnapshotAt |-> lastSnapshotAt, lastSnapshotReason |-> lastSnapshotReason,
     size |-> size, buffer |-> buffer, terminalDisposed |-> terminalDisposed,
     windowBytes |-> windowBytes, subs |-> subs,
     rafPending |-> rafPending, tasks |-> tasks, phase |-> phase, proc |-> proc,
     startCalls |-> startCalls, startSize |-> startSize, killCalls |-> killCalls,
     ptySize |-> ptySize, inputCalls |-> inputCalls, stored |-> stored, hasSaveApi |-> hasSaveApi,
     hasGetApi |-> hasGetApi, lastEmit |-> lastEmit, thrown |-> thrown,
     calls |-> calls, lastCapture |-> lastCapture,
     detachCapturedAt |-> detachCapturedAt, fault |-> fault, teardown |-> teardown,
     lastCall |-> lastCall, emitCount |-> emitCount, layout |-> layout, now |-> now]

Apply(w) ==
    /\ disposed' = w.disposed
    /\ attachedContainer' = w.attachedContainer
    /\ resizeObserver' = w.resizeObserver
    /\ containerParent' = w.containerParent
    /\ opened' = w.opened
    /\ disposables' = w.disposables
    /\ snapshotTimer' = w.snapshotTimer
    /\ tickDueAt' = w.tickDueAt
    /\ pendingSnapshot' = w.pendingSnapshot
    /\ listeners' = w.listeners
    /\ firstFrameRendered' = w.firstFrameRendered
    /\ ptyStarted' = w.ptyStarted
    /\ lastSnapshotAt' = w.lastSnapshotAt
    /\ lastSnapshotReason' = w.lastSnapshotReason
    /\ size' = w.size
    /\ buffer' = w.buffer
    /\ terminalDisposed' = w.terminalDisposed
    /\ windowBytes' = w.windowBytes
    /\ subs' = w.subs
    /\ rafPending' = w.rafPending
    /\ tasks' = w.tasks
    /\ phase' = w.phase
    /\ proc' = w.proc
    /\ startCalls' = w.startCalls
    /\ startSize' = w.startSize
    /\ killCalls' = w.killCalls
    /\ ptySize' = w.ptySize
    /\ inputCalls' = w.inputCalls
    /\ stored' = w.stored
    /\ hasSaveApi' = w.hasSaveApi
    /\ hasGetApi' = w.hasGetApi
    /\ lastEmit' = w.lastEmit
    /\ thrown' = w.thrown
    /\ calls' = w.calls
    /\ lastCapture' = w.lastCapture
    /\ detachCapturedAt' = w.detachCapturedAt
    /\ fault' = w.fault
    /\ teardown' = w.teardown
    /\ lastCall' = w.lastCall
    /\ emitCount' = w.emitCount
    /\ layout' = w.layout
    /\ now' = w.now

\* ------------------------------------------------------------ terminal (xterm)

\* The terminal keeps the last ScrollbackLines tokens written.
Trim(text) ==
    IF Len(text) <= ScrollbackLines THEN text
    ELSE SubSeq(text, Len(text) - ScrollbackLines + 1, Len(text))

SENTINEL == "[scrollback truncated to protect memory]"

terminalWrite(w, data) ==
    IF w.terminalDisposed THEN w ELSE [w EXCEPT !.buffer = Trim(@ \o data)]

terminalClear(w) ==
    IF w.terminalDisposed THEN w ELSE [w EXCEPT !.buffer = <<>>]

\* serializeAddon.serialize(): the text of the buffer
serialize(w) == w.buffer

\* The resize handler without its ptyResize request
onResizeDropped(w, sz) == w

\* terminal.onResize handler (constructor)
onResize(w, sz) ==
    IF ~w.disposed THEN [w EXCEPT !.ptySize = sz] ELSE w

\* terminal.resize(cols, rows): fires onResize when the size changes
terminalResize(w, sz) ==
    IF w.terminalDisposed \/ sz = w.size THEN w
    ELSE LET w1 == [w EXCEPT !.size = sz]
         IN  IF "resize" \in w.subs THEN onResize(w1, sz) ELSE w1

\* fitAddon.fit(): the size the container's parent allows; nothing is proposed
\* while the container sits in the off-screen holding area
fit(w) ==
    IF w.containerParent \in Surfaces
    THEN terminalResize(w, w.layout[w.containerParent])
    ELSE w

\* ------------------------------------------------------------ listeners
\* Listener l throws when it is invoked.
Throws(l) == l % 2 = 0

\* A fan-out: the channel, its listeners, those invoked, the exceptions caught, what
\* the listeners were given (error channel) and what they found: whether the session
\* was marked running and whether the transport had been sent the terminal's size.
NoMessage == "none"
NoEmit == [channel |-> "none", registered |-> <<>>, invoked |-> <<>>, caught |-> 0,
           message |-> NoMessage, running |-> FALSE, sizeSent |-> FALSE]

RECURSIVE fanOutNoCatch(_, _)
\* The loop without its try/catch: the first throwing listener ends the fan-out and
\* the exception reaches the caller.
fanOutNoCatch(ls, r) ==
    IF ls = <<>> THEN r
    ELSE LET l == Head(ls)
             r1 == [r EXCEPT !.invoked = Append(@, l)]
         IN  IF Throws(l)
             THEN [r1 EXCEPT !.escaped = TRUE]
             ELSE fanOutNoCatch(Tail(ls), r1)

RECURSIVE fanOut(_, _)
\* for (const listener of set) { try { listener() } catch { log.warn } }
fanOut(ls, r) ==
    IF ls = <<>> THEN r
    ELSE LET l == Head(ls)
             r1 == [r EXCEPT !.invoked = Append(@, l)]
         IN  IF Throws(l)
             THEN fanOut(Tail(ls), [r1 EXCEPT !.caught = @ + 1])
             ELSE fanOut(Tail(ls), r1)

\* emitActivity / emitReady / emitError / emitExit
emit(w, ch) ==
    LET r == fanOut(w.listeners[ch], [invoked |-> <<>>, caught |-> 0, escaped |-> FALSE])
    IN  [w EXCEPT !.lastEmit = [channel |-> ch, registered |-> w.listeners[ch],
                                invoked |-> r.invoked, caught |-> r.caught,
                                message |-> NoMessage, running |-> w.ptyStarted,
                                sizeSent |-> (w.ptySize = w.size)],
                  !.emitCount = IF ch \in {"ready", "error"}
                                THEN [@ EXCEPT ![ch] = @ + 1]
                                ELSE @,
                  !.thrown = IF r.escaped THEN "listener" ELSE @]

\* emitError(message)
emitError(w, message) == [emit(w, "error") EXCEPT !.lastEmit.message = message]

sendSizeIfStarted(w) ==
    IF ~w.ptyStarted \/ w.disposed THEN w ELSE [w EXCEPT !.ptySize = w.size]

\* ------------------------------------------------------------ snapshots
FreshTask(w) == CHOOSE i \in 1..(Cardinality(w.tasks) + 1) : \A t \in w.tasks : t.id # i

NoCapture == [reason |-> NoReason, outcome |-> "none"]

\* How a captureSnapshot call ended: skipped (no store, disposed, debounced), or a
\* task was created that was abandoned before the save or that requested the save.
Ended(w, reason, outcome) == [w EXCEPT !.lastCapture = [reason |-> reason, outcome |-> outcome]]

Began(w, reason, outcome) ==
    [Ended(w, reason, outcome) EXCEPT
        !.detachCapturedAt = IF reason = "detach" THEN w.now ELSE @]

\* captureSnapshot with the debounce window closed at its end (<= for <)
captureSnapshotInclusive(w, reason) ==
    IF ~w.hasSaveApi THEN Ended(w, reason, "nostore")
    ELSE IF w.disposed THEN Ended(w, reason, "disposed")
    ELSE IF /\ reason = "detach"
            /\ w.lastSnapshotReason = "detach"
            /\ w.lastSnapshotAt # 0
            /\ w.now - w.lastSnapshotAt <= DEBOUNCE_MS
    THEN Ended(w, reason, "debounced")
    ELSE LET data == serialize(w)
             id == FreshTask(w)
             payload == [version |-> TERMINAL_SNAPSHOT_VERSION, cols |-> w.size[1],
                         rows |-> w.size[2], data |-> data]
         IN  IF w.fault = SerializeFault
             THEN \* the task's catch swallows the exception; its finally is a microtask
                  [Began(w, reason, "failed") EXCEPT
                      !.tasks = @ \cup {[id |-> id, reason |-> reason,
                                         stage |-> "settled", payload |-> NoSnapshot]},
                      !.pendingSnapshot = id]
             ELSE IF data = <<>> /\ reason = "detach"
             THEN \* the task returns before it awaits; its finally is a microtask
                  [Began(w, reason, "abandoned") EXCEPT
                      !.tasks = @ \cup {[id |-> id, reason |-> reason,
                                         stage |-> "settled", payload |-> NoSnapshot]},
                      !.pendingSnapshot = id]
             ELSE [Began(w, reason, "saving") EXCEPT
                      !.tasks = @ \cup {[id |-> id, reason |-> reason,
                                         stage |-> "saving", payload |-> payload]},
                      !.pendingSnapshot = id]

captureSnapshot(w, reason) ==
    IF ~w.hasSaveApi THEN Ended(w, reason, "nostore")
    ELSE IF w.disposed THEN Ended(w, reason, "disposed")
    ELSE IF /\ reason = "detach"
            /\ w.lastSnapshotReason = "detach"
            /\ w.lastSnapshotAt # 0
            /\ w.now - w.lastSnapshotAt < DEBOUNCE_MS
    THEN Ended(w, reason, "debounced")
    ELSE LET data == serialize(w)
             id == FreshTask(w)
             payload == [version |-> TERMINAL_SNAPSHOT_VERSION, cols |-> w.size[1],
                         rows |-> w.size[2], data |-> data]
         IN  IF w.fault = SerializeFault
             THEN \* the task's catch swallows the exception; its finally is a microtask
                  [Began(w, reason, "failed") EXCEPT
                      !.tasks = @ \cup {[id |-> id, reason |-> reason,
                                         stage |-> "settled", payload |-> NoSnapshot]},
                      !.pendingSnapshot = id]
             ELSE IF data = <<>> /\ reason = "detach"
             THEN \* the task returns before it awaits; its finally is a microtask
                  [Began(w, reason, "abandoned") EXCEPT
                      !.tasks = @ \cup {[id |-> id, reason |-> reason,
                                         stage |-> "settled", payload |-> NoSnapshot]},
                      !.pendingSnapshot = id]
             ELSE [Began(w, reason, "saving") EXCEPT
                      !.tasks = @ \cup {[id |-> id, reason |-> reason,
                                         stage |-> "saving", payload |-> payload]},
                      !.pendingSnapshot = id]

\* task.finally(...)
taskFinally(w, t) ==
    [w EXCEPT !.tasks = @ \ {t},
              !.pendingSnapshot = IF @ = t.id THEN NoTask ELSE @,
              !.lastSnapshotAt = w.now,
              !.lastSnapshotReason = t.reason]

\* TerminalMetrics.markSnapshot(): the guardrail's counter is reset
markSnapshot(w) == [w EXCEPT !.windowBytes = 0]

\* The task resetting the guardrail's counter whatever the store answered
saveAnsweredMarkAlways(w, t, answer) ==
    LET w1 == IF answer = "ok" THEN [w EXCEPT !.stored = t.payload] ELSE w
    IN  taskFinally(markSnapshot(w1), t)

\* the rest of the task once ptySaveSnapshot has answered; an ok answer means the
\* store now holds the payload
saveAnswered(w, t, answer) ==
    LET w1 == IF answer = "ok"
              THEN markSnapshot([w EXCEPT !.stored = t.payload])
              ELSE w
    IN  taskFinally(w1, t)

stopSnapshotTimer(w) ==
    IF w.snapshotTimer THEN [w EXCEPT !.snapshotTimer = FALSE] ELSE w

\* ------------------------------------------------------------ attach, detach, dispose
\* detach() that leaves the container where it is
detachNoMove(w) ==
    IF w.attachedContainer # NoContainer
    THEN captureSnapshot([w EXCEPT !.resizeObserver = FALSE,
                                   !.attachedContainer = NoContainer], "detach")
    ELSE w

\* detach() without its test of this.attachedContainer
detachAlways(w) ==
    captureSnapshot([w EXCEPT !.resizeObserver = FALSE,
                              !.containerParent = Host,
                              !.attachedContainer = NoContainer], "detach")

\* ensureTerminalHost().appendChild(this.container) may throw: the observer is
\* already disconnected, the rest of detach() does not run
detach(w) ==
    IF w.attachedContainer # NoContainer
    THEN IF w.fault = "detach"
         THEN [w EXCEPT !.resizeObserver = FALSE, !.thrown = "detach"]
         ELSE captureSnapshot([w EXCEPT !.resizeObserver = FALSE,
                                        !.containerParent = Host,
                                        !.attachedContainer = NoContainer], "detach")
    ELSE w

\* attach() without its same-container return
attachAlways(w, container) ==
    IF w.disposed THEN [w EXCEPT !.thrown = "IllegalState"]
    ELSE LET w1 == detach(w)
             w2 == [w1 EXCEPT !.containerParent = container,
                              !.attachedContainer = container,
                              !.opened = TRUE]
             w3 == sendSizeIfStarted(fit(w2))
         IN  IF w1.thrown # "none" THEN w1
             ELSE [w3 EXCEPT !.resizeObserver = TRUE, !.rafPending = TRUE]

\* attach() without its disposed check
attachNoDisposedCheck(w, container) ==
    IF w.attachedContainer = container THEN w
    ELSE LET w1 == detach(w)
             w2 == [w1 EXCEPT !.containerParent = container,
                              !.attachedContainer = container,
                              !.opened = TRUE]
             w3 == sendSizeIfStarted(fit(w2))
         IN  IF w1.thrown # "none" THEN w1
             ELSE [w3 EXCEPT !.resizeObserver = TRUE, !.rafPending = TRUE]

attach(w, container) ==
    IF w.disposed THEN [w EXCEPT !.thrown = "IllegalState"]
    ELSE IF w.attachedContainer = container THEN w
    ELSE LET w1 == detach(w)
             w2 == [w1 EXCEPT !.containerParent = container,
                              !.attachedContainer = container,
                              !.opened = TRUE]
             w3 == sendSizeIfStarted(fit(w2))
         IN  IF w1.thrown # "none" THEN w1
             ELSE [w3 EXCEPT !.resizeObserver = TRUE, !.rafPending = TRUE]

\* ResizeObserver callback of attach: try { fitAddon.fit() } catch {}
observerCallback(w) == fit(w)

\* The layout gives surface c another size; the observer, if it observes c, is called.
containerResized(w, c, box) ==
    LET w1 == [w EXCEPT !.layout[c] = box]
    IN  IF w1.resizeObserver /\ w1.attachedContainer = c
        THEN observerCallback(w1)
        ELSE w1

\* requestAnimationFrame callback of attach
rafCallback(w) ==
    LET w1 == [w EXCEPT !.rafPending = FALSE]
    IN  IF w1.disposed THEN w1 ELSE sendSizeIfStarted(fit(w1))

RECURSIVE runDisposables(_, _)
\* for (const dispose of this.disposables.splice(0)) { try { dispose() } catch {} }
\* A cleanup that throws leaves its subscription in place; the loop goes on.
runDisposables(w, ds) ==
    IF ds = <<>> THEN w
    ELSE IF w.fault = "cleanup" /\ Head(ds) = "input"
         THEN runDisposables(w, Tail(ds))
         ELSE runDisposables([w EXCEPT !.subs = @ \ {Head(ds)}], Tail(ds))

\* try { ptyKill(id) } catch { log.warn }: the request is made, an exception is logged
ptyKill(w) == [w EXCEPT !.killCalls = @ + 1]

metricsDispose(w) == w

clearListeners(w) == [w EXCEPT !.listeners = [ch \in Channels |-> <<>>]]

\* The steps of dispose(), in the order of the source.
AllSteps == <<"detach", "timer", "kill", "cleanups", "listeners">>

\* dispose() has carried out one more of its steps.
Did(w, step) == [w EXCEPT !.teardown = Append(@, step)]

\* dispose() asking for the kill before it detaches and stops the timer
tearDownKillFirst(w) ==
    LET w1 == [w EXCEPT !.disposed = TRUE]
        w2 == Did(ptyKill(w1), "kill")
        w3 == detach(w2)
        w4 == Did(stopSnapshotTimer(Did(w3, "detach")), "timer")
        w5 == captureSnapshot(w4, "dispose")
        w6 == Did(runDisposables([w5 EXCEPT !.disposables = <<>>], w5.disposables),
                  "cleanups")
        w7 == Did(clearListeners(metricsDispose(w6)), "listeners")
    IN  [w7 EXCEPT !.terminalDisposed = TRUE]

\* dispose() past its early return
tearDown(w) ==
    LET w1 == [w EXCEPT !.disposed = TRUE]
        w2 == detach(w1)
        w3 == Did(stopSnapshotTimer(Did(w2, "detach")), "timer")
        w4 == Did(ptyKill(captureSnapshot(w3, "dispose")), "kill")
        w5 == Did(runDisposables([w4 EXCEPT !.disposables = <<>>], w4.disposables),
                  "cleanups")
        w6 == Did(clearListeners(metricsDispose(w5)), "listeners")
    IN  IF w2.thrown # "none" THEN w2
        ELSE IF w5.fault = "metrics" THEN [w5 EXCEPT !.thrown = "metrics"]
        ELSE [w6 EXCEPT !.terminalDisposed = TRUE]

\* dispose() without its early return
disposeAgain(w) == tearDown(w)

dispose(w) == IF w.disposed THEN w ELSE tearDown(w)

\* ------------------------------------------------------------ memory guardrail
Chunks == {"half", "halfPlus", "over"}

\* chunk.length
ChunkBytes(c) ==
    CASE c = "half" -> MAX_DATA_WINDOW_BYTES \div 2
      [] c = "halfPlus" -> MAX_DATA_WINDOW_BYTES \div 2 + 1
      [] c = "over" -> MAX_DATA_WINDOW_BYTES + 1

\* TerminalMetrics.canAccept(chunk): whether admitting the chunk keeps the running
\* total within the ceiling; a rejection resets the total
canAccept(bytes, chunk) ==
    IF bytes + ChunkBytes(chunk) > MAX_DATA_WINDOW_BYTES
    THEN [ok |-> FALSE, windowBytes |-> 0]
    ELSE [ok |-> TRUE, windowBytes |-> bytes + ChunkBytes(chunk)]

\* The data handler without terminal.clear(): the notice is appended to what is shown.
onPtyDataNoClear(w, chunk) ==
    LET r == canAccept(w.windowBytes, chunk)
        w1 == [w EXCEPT !.windowBytes = r.windowBytes]
        w2 == IF ~r.ok THEN terminalWrite(w1, <<SENTINEL>>) ELSE w1
        w3 == terminalWrite(w2, <<chunk>>)
    IN  [w3 EXCEPT !.firstFrameRendered = TRUE]

\* onPtyData handler (connectPty)
onPtyData(w, chunk) ==
    LET r == canAccept(w.windowBytes, chunk)
        w1 == [w EXCEPT !.windowBytes = r.windowBytes]
        w2 == IF ~r.ok THEN terminalWrite(terminalClear(w1), <<SENTINEL>>) ELSE w1
        w3 == terminalWrite(w2, <<chunk>>)
    IN  [w3 EXCEPT !.firstFrameRendered = TRUE]

\* onPtyExit handler (connectPty)
onPtyExit(w) == emit([w EXCEPT !.ptyStarted = FALSE], "exit")

\* onPtyStarted handler (connectPty)
onPtyStarted(w) == sendSizeIfStarted([w EXCEPT !.ptyStarted = TRUE])

\* The transport answers ptyStart: on ok the process runs.
transportAnswers(w, answer) ==
    [w EXCEPT !.phase = IF answer = "ok" THEN "started" ELSE "failed",
              !.proc = IF answer = "ok" THEN "running" ELSE @]

\* result.error of a not-ok result, error.message of a rejection
Failure(answer) == IF answer = "notok" THEN "result.error" ELSE "error.message"

\* The then-handler firing ready before it forwards the size
startAnsweredReadyFirst(w, answer) ==
    IF answer = "ok"
    THEN LET w1 == sendSizeIfStarted(emit([w EXCEPT !.ptyStarted = TRUE], "ready"))
         IN  [w1 EXCEPT !.subs = @ \cup {"started"},
                        !.disposables = Append(@, "started")]
    ELSE emitError(w, Failure(answer))

\* A not-ok result reported by the then-handler and again by the catch-handler
startAnsweredTwice(w, answer) ==
    IF answer = "ok"
    THEN LET w1 == emit(sendSizeIfStarted([w EXCEPT !.ptyStarted = TRUE]), "ready")
         IN  [w1 EXCEPT !.subs = @ \cup {"started"},
                        !.disposables = Append(@, "started")]
    ELSE IF answer = "notok"
         THEN emitError(emitError(w, Failure(answer)), Failure(answer))
         ELSE emitError(w, Failure(answer))

\* The then-handler without its sendSizeIfStarted() call
startAnsweredNoSize(w, answer) ==
    IF answer = "ok"
    THEN LET w1 == emit([w EXCEPT !.ptyStarted = TRUE], "ready")
         IN  [w1 EXCEPT !.subs = @ \cup {"started"},
                        !.disposables = Append(@, "started")]
    ELSE emitError(w, Failure(answer))

\* ptyStart(...).then / .catch
startAnswered(w, answer) ==
    IF answer = "ok"
    THEN LET w1 == emit(sendSizeIfStarted([w EXCEPT !.ptyStarted = TRUE]), "ready")
         IN  [w1 EXCEPT !.subs = @ \cup {"started"},
                        !.disposables = Append(@, "started")]
    ELSE emitError(w, Failure(answer))

\* connectPty() behind .then() in place of .finally(): reached only when the
\* restore has written a snapshot to the terminal
connectPtyIfRestored(w) ==
    IF w.buffer = <<>> THEN w
    ELSE [w EXCEPT !.startCalls = @ + 1,
                   !.startSize = InitialSize,
                   !.phase = "starting",
                   !.subs = @ \cup {"data", "exit"},
                   !.disposables = @ \o <<"data", "exit">>]

connectPty(w) ==
    [w EXCEPT !.startCalls = @ + 1,
              !.startSize = InitialSize,
              !.phase = "starting",
              !.subs = @ \cup {"data", "exit"},
              !.disposables = @ \o <<"data", "exit">>]

\* response: what ptyGetSnapshot answers (reject, notok, or ok with the stored snapshot)
restoreSnapshot(w, response) ==
    IF ~w.hasGetApi THEN w
    ELSE IF response = "reject" THEN w
    ELSE IF response # "ok" \/ w.stored = NoSnapshot \/ w.stored.data = <<>> THEN w
    ELSE IF w.stored.version # 0 /\ w.stored.version # TERMINAL_SNAPSHOT_VERSION THEN w
    ELSE LET snapshot == w.stored
             w1 == IF Len(snapshot.data) > 0
                   THEN terminalWrite(terminalClear(w), snapshot.data)
                   ELSE w
         IN  IF snapshot.cols # 0 /\ snapshot.rows # 0
             THEN terminalResize(w1, <<snapshot.cols, snapshot.rows>>)
             ELSE w1

\* terminal.onData handler (constructor); focus reports are filtered out
FOCUS_IN == "\\x1b[I"
FOCUS_OUT == "\\x1b[O"
Inputs == {<<"x">>, <<FOCUS_IN>>, <<FOCUS_OUT, "x">>}
IsKey(tok) == tok # FOCUS_IN /\ tok # FOCUS_OUT

onData(w, data) ==
    LET w1 == emit(w, "activity")
        filtered == SelectSeq(data, IsKey)
    IN  IF ~w1.disposed /\ filtered # <<>>
        THEN [w1 EXCEPT !.inputCalls = @ + 1]
        ELSE w1

\* Set.add / Set.delete, in insertion order
setAdd(ls, l) == IF \E i \in 1..Len(ls) : ls[i] = l THEN ls ELSE Append(ls, l)
setDelete(ls, l) == SelectSeq(ls, LAMBDA x : x # l)

registerListener(w, ch, l) == [w EXCEPT !.listeners[ch] = setAdd(@, l)]
unregisterListener(w, ch, l) == [w EXCEPT !.listeners[ch] = setDelete(@, l)]

\* ------------------------------------------------------------ the state machine
\* The state after the constructor: the container in the holding area, the input and
\* resize handlers installed, the restore requested, the snapshot timer running.
\* snapshot is what the store holds; saveApi and getApi say whether
\* window.electronAPI defines ptySaveSnapshot and ptyGetSnapshot.
Constructed(snapshot, saveApi, getApi) ==
    [disposed |-> FALSE,
     attachedContainer |-> NoContainer,
     resizeObserver |-> FALSE,
     containerParent |-> Host,
     opened |-> FALSE,
     disposables |-> <<"input", "resize">>,
     snapshotTimer |-> TRUE,
     tickDueAt |-> StartTime + SNAPSHOT_INTERVAL_MS,
     pendingSnapshot |-> NoTask,
     listeners |-> [ch \in Channels |-> <<>>],
     firstFrameRendered |-> FALSE,
     ptyStarted |-> FALSE,
     lastSnapshotAt |-> 0,
     lastSnapshotReason |-> NoReason,
     size |-> InitialSize,
     buffer |-> <<>>,
     terminalDisposed |-> FALSE,
     windowBytes |-> 0,
     subs |-> {"input", "resize"},
     rafPending |-> FALSE,
     tasks |-> {},
     phase |-> "restoring",
     proc |-> "none",
     startCalls |-> 0,
     startSize |-> NoSize,
     killCalls |-> 0,
     ptySize |-> NoSize,
     inputCalls |-> 0,
     stored |-> snapshot,
     hasSaveApi |-> saveApi,
     hasGetApi |-> getApi,
     lastEmit |-> NoEmit,
     thrown |-> "none",
     calls |-> 0,
     lastCapture |-> NoCapture,
     detachCapturedAt |-> 0,
     fault |-> "none",
     teardown |-> <<>>,
     lastCall |-> Unrecorded,
     emitCount |-> [ready |-> 0, error |-> 0],
     layout |-> [c \in Surfaces |-> SurfaceSize(c)],
     now |-> StartTime]

InitFrom(w) ==
    /\ disposed = w.disposed
    /\ attachedContainer = w.attachedContainer
    /\ resizeObserver = w.resizeObserver
    /\ containerParent = w.containerParent
    /\ opened = w.opened
    /\ disposables = w.disposables
    /\ snapshotTimer = w.snapshotTimer
    /\ tickDueAt = w.tickDueAt
    /\ pendingSnapshot = w.pendingSnapshot
    /\ listeners = w.listeners
    /\ firstFrameRendered = w.firstFrameRendered
    /\ ptyStarted = w.ptyStarted
    /\ lastSnapshotAt = w.lastSnapshotAt
    /\ lastSnapshotReason = w.lastSnapshotReason
    /\ size = w.size
    /\ buffer = w.buffer
    /\ terminalDisposed = w.terminalDisposed
    /\ windowBytes = w.windowBytes
    /\ subs = w.subs
    /\ rafPending = w.rafPending
    /\ tasks = w.tasks
    /\ phase = w.phase
    /\ proc = w.proc
    /\ startCalls = w.startCalls
    /\ startSize = w.startSize
    /\ killCalls = w.killCalls
    /\ ptySize = w.ptySize
    /\ inputCalls = w.inputCalls
    /\ stored = w.stored
    /\ hasSaveApi = w.hasSaveApi
    /\ hasGetApi = w.hasGetApi
    /\ lastEmit = w.lastEmit
    /\ thrown = w.thrown
    /\ calls = w.calls
    /\ lastCapture = w.lastCapture
    /\ detachCapturedAt = w.detachCapturedAt
    /\ fault = w.fault
    /\ teardown = w.teardown
    /\ lastCall = w.lastCall
    /\ emitCount = w.emitCount
    /\ layout = w.layout
    /\ now = w.now

\* A promise reaction is queued: no timer, frame or transport event runs before it.
MicrotaskPending ==
    \/ \E t \in tasks : t.stage = "settled"
    \/ phase = "restoring" /\ ~hasGetApi

Entry == [World EXCEPT !.thrown = "none"]

\* One handler ran to completion, within the bounds of the model.
Step(w) ==
    /\ Cardinality(w.tasks) <= MaxTasks
    /\ Apply(w)

\* A public method is entered: the call and the state it finds are recorded.
Called(w, op, arg) ==
    IF w.lastCall.op = "unrecorded" THEN w
    ELSE [w EXCEPT !.lastCall = [op |-> op, arg |-> arg,
                                 attached |-> w.attachedContainer,
                                 disposed |-> w.disposed]]

Attach(c) ==
    /\ c \in Surfaces
    /\ Step(attach(Called(Entry, "attach", c), c))

Detach ==
    /\ Step(detach(Called(Entry, "detach", "none")))

Dispose ==
    /\ calls < MaxDisposeCalls
    /\ Step(dispose(Called([Entry EXCEPT !.calls = @ + 1], "dispose", "none")))

TotalListeners == Len(listeners.activity) + Len(listeners.ready)
                  + Len(listeners.error) + Len(listeners.exit)

Register(ch, l) ==
    /\ ch \in Channels
    /\ TotalListeners < MaxListeners
    /\ Step(registerListener(Entry, ch, l))

Unregister(ch, l) ==
    /\ ch \in Channels
    /\ Step(unregisterListener(Entry, ch, l))

IntervalTick ==
    /\ snapshotTimer
    /\ now >= tickDueAt
    /\ ~MicrotaskPending
    /\ Step(captureSnapshot([Entry EXCEPT !.tickDueAt = now + SNAPSHOT_INTERVAL_MS],
                            "interval"))

RafFrame ==
    /\ rafPending
    /\ ~MicrotaskPending
    /\ Step(rafCallback(Entry))

TaskFinally(t) ==
    /\ t \in tasks
    /\ t.stage = "settled"
    /\ Step(taskFinally(Entry, t))

SaveAnswered(t, answer) ==
    /\ t \in tasks
    /\ t.stage = "saving"
    /\ ~MicrotaskPending
    /\ Step(saveAnswered(Entry, t, answer))

RestoreDone(response) ==
    /\ phase = "restoring"
    /\ \A t \in tasks : t.stage # "settled"
    /\ Step(connectPty(restoreSnapshot(Entry, response)))

StartAnswered(answer) ==
    /\ phase = "starting"
    /\ ~MicrotaskPending
    /\ Step(startAnswered(transportAnswers(Entry, answer), answer))

PtyStartedLate ==
    /\ "started" \in subs
    /\ proc = "running"
    /\ ~MicrotaskPending
    /\ Step(onPtyStarted(Entry))

PtyData(chunk) ==
    /\ "data" \in subs
    /\ proc = "running"
    /\ ~MicrotaskPending
    /\ Step(onPtyData(Entry, chunk))

PtyExit ==
    /\ proc = "running"
    /\ ~MicrotaskPending
    /\ LET w == [Entry EXCEPT !.proc = "exited"]
       IN  Step(IF "exit" \in subs THEN onPtyExit(w) ELSE w)

UserInput(data) ==
    /\ "input" \in subs
    /\ inputCalls < MaxInputs
    /\ ~MicrotaskPending
    /\ Step(onData(Entry, data))

ContainerResize(c, box) ==
    /\ c \in Surfaces
    /\ box \in Boxes
    /\ box # layout[c]
    /\ ~MicrotaskPending
    /\ Step(containerResized(Entry, c, box))

\* The clock moves by a third of the debounce window or by a snapshot interval.
ShortSteps(t) == ((t - StartTime) % SNAPSHOT_INTERVAL_MS) \div TimeStepMs
LongSteps(t) == (t - StartTime) \div SNAPSHOT_INTERVAL_MS

Advance(d) ==
    /\ \/ d = TimeStepMs /\ ShortSteps(now) < MaxTicks
       \/ d = SNAPSHOT_INTERVAL_MS /\ LongSteps(now) < MaxIntervals
    /\ ~MicrotaskPending
    /\ Step([Entry EXCEPT !.now = @ + d])

Answers == {"ok", "notok", "reject"}

\* ------------------------------------------------------------ Spec: the lifecycle
\* Construction to disposal: restore, transport start, attach and detach, interval
\* captures and process exit; the clock moves by whole snapshot intervals.
Init == \E saveApi \in BOOLEAN : InitFrom(Constructed(NoSnapshot, saveApi, TRUE))

Next ==
    \/ Attach("A")
    \/ Detach
    \/ Dispose
    \/ \E ch \in {"ready", "exit"} : Register(ch, 1)
    \/ IntervalTick
    \/ \E t \in tasks : TaskFinally(t)
    \/ \E t \in tasks, answer \in Answers : SaveAnswered(t, answer)
    \/ \E response \in Answers : RestoreDone(response)
    \/ \E answer \in Answers : StartAnswered(answer)
    \/ PtyStartedLate
    \/ PtyExit
    \/ Advance(SNAPSHOT_INTERVAL_MS)

Spec == Init /\ [][Next]_vars

\* ------------------------------------------------------------ claims on Spec
\* A step initiated a capture task / sent a save request to the store.
NewTasks == { t \in tasks' : t \notin tasks }
NewSaves == { t \in NewTasks : t.stage = "saving" }

\* What dispose() can touch that anything outside the manager can see: every
\* variable but the count and the record of calls and the exception of the last
\* handler.
sessionView == <<disposed, attachedContainer, resizeObserver, containerParent, opened,
                 disposables, snapshotTimer, tickDueAt, pendingSnapshot, listeners,
                 firstFrameRendered, ptyStarted, lastSnapshotAt, lastSnapshotReason,
                 size, buffer, terminalDisposed, windowBytes, subs, rafPending, tasks,
                 phase, proc, startCalls, startSize, killCalls, ptySize, inputCalls,
                 stored, lastEmit, lastCapture, detachCapturedAt, fault, teardown,
                 emitCount, now>>

\* C1: a dispose() call on a session that is already disposed changes nothing: no
\* kill request, no save request, no cleanup run, no listener invoked, no field
\* of the session written; so two calls have the effects of one.
C1_DisposeTwice == [][Dispose /\ disposed => UNCHANGED sessionView]_vars

\* C1 witness: dispose() was called a second time, and the transport was asked to
\* kill once.
C1_Witness == calls = 2 /\ disposed /\ killCalls = 1

\* The subscriptions the registered cleanup functions end.
RECURSIVE Range(_)
Range(seq) == IF seq = <<>> THEN {} ELSE {Head(seq)} \cup Range(Tail(seq))

\* C12: the first dispose() detaches, stops the timer, requests the kill, runs the
\* cleanups and empties the registries, in this order, each once; the kill is never
\* requested again and the timer stays stopped, so no interval capture follows.
C12_DisposeOrder ==
    [][/\ Dispose /\ ~disposed =>
             /\ teardown' = AllSteps
             /\ attachedContainer' = NoContainer /\ ~resizeObserver'
             /\ ~snapshotTimer'
             /\ killCalls = 0 /\ killCalls' = 1
             /\ disposables' = <<>> /\ subs' = subs \ Range(disposables)
             /\ \A ch \in Channels : listeners'[ch] = <<>>
       /\ disposed =>
             /\ ~snapshotTimer /\ ~snapshotTimer'
             /\ killCalls' = killCalls
             /\ teardown' = teardown
             /\ ~IntervalTick
             /\ lastCapture'.reason = "interval" => lastCapture' = lastCapture]_vars

\* C12 witness: a session with a listener was disposed while it was attached (its
\* detach capture was called under dispose), and time has passed a snapshot interval.
C12_Witness ==
    /\ disposed
    /\ teardown = AllSteps
    /\ lastCapture = [reason |-> "dispose", outcome |-> "disposed"]
    /\ opened
    /\ killCalls = 1
    /\ now >= tickDueAt

\* C17 (as claimed): the transport start is requested once in the life of a session,
\* and the request carries the size the terminal has when it is made.
C17_StartOnceWithCurrentSize ==
    [][startCalls' # startCalls =>
          /\ startCalls = 0 /\ startCalls' = 1
          /\ startSize' = size']_vars

\* C19 (as claimed): a successful start acknowledgment marks the session running,
\* then forwards the terminal size, then invokes every ready listener; ready fans out
\* at most once and never on a failed start; a late started-confirmation forwards
\* the size again and fires no ready.
C19_ReadyAfterSize ==
    /\ [](emitCount.ready <= 1)
    /\ [][/\ StartAnswered("ok") =>
                /\ ptyStarted' /\ ptySize' = size
                /\ emitCount'.ready = 1
                /\ lastEmit'.channel = "ready"
                /\ lastEmit'.invoked = listeners.ready
                /\ lastEmit'.running /\ lastEmit'.sizeSent
          /\ StartAnswered("notok") \/ StartAnswered("reject") =>
                emitCount'.ready = emitCount.ready /\ ~ptyStarted'
          /\ PtyStartedLate =>
                /\ ptyStarted' /\ ptySize' = size
                /\ emitCount' = emitCount /\ lastEmit' = lastEmit]_vars

\* C19 (amended): the same for a session that has not been disposed; whether or not
\* it has, ready fans out at most once, never on a failed start and never on a late
\* started-confirmation.
C19_ReadyAfterSizeUnlessDisposed ==
    /\ [](emitCount.ready <= 1)
    /\ [][/\ StartAnswered("ok") /\ ~disposed =>
                /\ ptyStarted' /\ ptySize' = size
                /\ emitCount'.ready = 1
                /\ lastEmit'.channel = "ready"
                /\ lastEmit'.invoked = listeners.ready
                /\ lastEmit'.running /\ lastEmit'.sizeSent
          /\ StartAnswered("notok") \/ StartAnswered("reject") =>
                emitCount'.ready = emitCount.ready /\ ~ptyStarted'
          /\ PtyStartedLate =>
                emitCount' = emitCount /\ lastEmit' = lastEmit
          /\ PtyStartedLate /\ ~disposed =>
                ptyStarted' /\ ptySize' = size
          /\ disposed => ptySize' = ptySize]_vars

\* C19 witness: the ready listener of a session attached to surface A was invoked
\* once, when the session was running and the size of A had been sent.
C19_Witness ==
    /\ ~disposed
    /\ emitCount.ready = 1
    /\ lastEmit.channel = "ready"
    /\ lastEmit.invoked = <<1>>
    /\ lastEmit.running
    /\ lastEmit.sizeSent
    /\ ptySize = SurfaceSize("A")
    /\ ptySize = size

\* C2 (as claimed): the first dispose() of a session whose store is available
\* sends the store a save request tagged dispose.
C2_DisposeSaves ==
    [][Dispose /\ ~disposed /\ hasSaveApi
         => \E t \in NewSaves : t.reason = "dispose"]_vars

\* C3 (as claimed): once disposed, no step changes ptyStarted or the attachment,
\* invokes a listener, or initiates a capture.
C3_DisposeTerminal ==
    [][disposed =>
         /\ ptyStarted' = ptyStarted
         /\ attachedContainer' = attachedContainer
         /\ (lastEmit' = lastEmit \/ lastEmit'.invoked = <<>>)
         /\ NewTasks = {}]_vars

\* C4 (as claimed): once disposed, no transport start is requested, no data, exit
\* or started subscription is created, and no cleanup is added to the list that
\* dispose has already run.
C4_LateCompletionsHarmless ==
    [][disposed =>
         /\ startCalls' = startCalls
         /\ subs' \subseteq subs
         /\ Len(disposables') <= Len(disposables)]_vars

\* ------------------------------------------------------------ SpecSnap: the snapshot protocol
\* A session whose process runs, before and after its first output: what the
\* constructor's chain and the data handler make of the constructed state.
Started(saveApi) ==
    LET w == connectPty(restoreSnapshot(Constructed(NoSnapshot, saveApi, TRUE), "ok"))
    IN  startAnswered(transportAnswers(w, "ok"), "ok")

WithOutput(saveApi) == onPtyData(Started(saveApi), "half")

InitSnap ==
    \E saveApi \in BOOLEAN :
        \E w \in {Started(saveApi), WithOutput(saveApi)} : InitFrom(w)

\* Attach and detach, interval ticks, slow and fast store answers, and the clock.
NextSnap ==
    \/ Attach("A")
    \/ Detach
    \/ IntervalTick
    \/ \E t \in tasks : TaskFinally(t)
    \/ \E t \in tasks, answer \in Answers : SaveAnswered(t, answer)
    \/ \E d \in {TimeStepMs, SNAPSHOT_INTERVAL_MS} : Advance(d)

SpecSnap == InitSnap /\ [][NextSnap]_vars

\* ------------------------------------------------------------ claims on SpecSnap
\* A step detached a session that is not disposed: captureSnapshot('detach') ran.
DetachStep == attachedContainer # NoContainer /\ attachedContainer' = NoContainer /\ ~disposed'

\* C5 (as claimed): at most one capture task awaits the store at any time.
C5_OneCaptureInFlight == Cardinality({ t \in tasks : t.stage = "saving" }) <= 1

Foreign(v) == [version |-> v, cols |-> 100, rows |-> 30, data |-> <<"half">>]

\* A snapshot of the current version that lacks its size.
Sizeless == [version |-> TERMINAL_SNAPSHOT_VERSION, cols |-> 0, rows |-> 0,
             data |-> <<"half">>]

InitRestore ==
    \E snapshot \in {NoSnapshot, Foreign(0), Foreign(2), Sizeless}, getApi \in BOOLEAN :
        InitFrom(Constructed(snapshot, TRUE, getApi))

\* new TerminalSessionManager(options) for the same id, once the previous session
\* is disposed and its captures have finished: the store keeps what it holds.
Reopen ==
    /\ disposed
    /\ tasks = {}
    /\ ~MicrotaskPending
    /\ Step([Constructed(stored, hasSaveApi, hasGetApi) EXCEPT
                !.now = now,
                !.layout = layout,
                !.tickDueAt = now + SNAPSHOT_INTERVAL_MS])

NextRestore ==
    \/ \E response \in Answers : RestoreDone(response)
    \/ StartAnswered("ok")
    \/ PtyData("half")
    \/ Attach("A")
    \/ Advance(SNAPSHOT_INTERVAL_MS)
    \/ IntervalTick
    \/ \E t \in tasks, answer \in Answers : SaveAnswered(t, answer)
    \/ Dispose
    \/ Reopen

SpecRestore == InitRestore /\ [][NextRestore]_vars

\* The store answers every ptyGetSnapshot request (its promise settles), and the
\* reaction the constructor chained to the restore then runs.
LiveRestore ==
    SpecRestore /\ WF_vars(\E response \in Answers : RestoreDone(response))

\* C18: the transport start is requested only by the step that ends the restore
\* attempt, and a session under restore that is not disposed gets its start
\* requested, whatever the store holds and however it answers.
C18_RestoreThenStart ==
    /\ [][startCalls' = startCalls + 1 =>
             /\ phase = "restoring"
             /\ \E response \in Answers : RestoreDone(response)]_vars
    /\ (phase = "restoring" /\ ~disposed) ~> (startCalls = 1 \/ disposed)

\* C18 witness: the start was requested although the store answered with a snapshot
\* of another version, which left the terminal blank.
C18_Witness ==
    /\ stored = Foreign(2)
    /\ startCalls = 1
    /\ phase = "starting"
    /\ buffer = <<>>
    /\ ~disposed

\* C7 (as claimed): a restore that finds a stored payload of another version leaves
\* the buffer empty and the size as it was, and raises or reports no error.
C7_OtherVersionSkipped ==
    [][/\ \E response \in Answers : RestoreDone(response)
       /\ stored # NoSnapshot
       /\ stored.version # TERMINAL_SNAPSHOT_VERSION
       => /\ buffer' = <<>>
          /\ size' = size
          /\ thrown' = "none"
          /\ lastEmit' = lastEmit]_vars

\* A session that has been constructed and has done nothing else yet.
FreshSession ==
    /\ phase = "restoring"
    /\ lastSnapshotAt = 0
    /\ tasks = {}
    /\ attachedContainer = NoContainer
    /\ size = InitialSize

\* C8 (as claimed): a payload the manager saved, handed by the store to the restore
\* of a fresh session of the same version, yields that payload's buffer text and
\* its cols and rows.
C8_RoundTrip ==
    [][/\ RestoreDone("ok")
       /\ FreshSession
       /\ hasGetApi
       /\ stored # NoSnapshot
       /\ stored.version = TERMINAL_SNAPSHOT_VERSION
       /\ stored.cols # 0 /\ stored.rows # 0
       => /\ buffer' = stored.data
          /\ size' = <<stored.cols, stored.rows>>]_vars

\* ------------------------------------------------------------ SpecGuard: the memory guardrail
\* A running session without a snapshot store receives chunks of every size class
\* while it is attached, painted and detached.
InitGuard == InitFrom(Started(FALSE))

NextGuard ==
    \/ \E chunk \in Chunks : PtyData(chunk)
    \/ Attach("A")
    \/ RafFrame
    \/ Detach

SpecGuard == InitGuard /\ [][NextGuard]_vars

InitListen == InitFrom(Constructed(NoSnapshot, FALSE, TRUE))

NextListen ==
    \/ \E ch \in Channels : Register(ch, Len(listeners[ch]) + 1)
    \/ \E ch \in Channels : Unregister(ch, 1)
    \/ RestoreDone("ok")
    \/ \E answer \in Answers : StartAnswered(answer)
    \/ PtyExit
    \/ \E data \in Inputs : UserInput(data)
    \/ Dispose

SpecListen == InitListen /\ [][NextListen]_vars

\* C10: the last fan-out on any channel invoked every listener registered on that
\* channel at that moment exactly once, whichever of them threw, and no listener's
\* exception reached the handler or method that triggered the event.
C10_ListenerIsolation ==
    /\ lastEmit.invoked = lastEmit.registered
    /\ thrown # "listener"

\* Three listeners were invoked and the second of them threw.
C10_Witness ==
    /\ Len(lastEmit.registered) = 3
    /\ Throws(lastEmit.registered[2])
    /\ lastEmit.invoked = lastEmit.registered
    /\ lastEmit.caught >= 1
    /\ thrown = "none"

\* ------------------------------------------------------------ SpecFault: teardown under failure
\* A running session in which one collaborator call throws whenever it is made.
InitFault ==
    \E f \in Faults, w \in {Started(TRUE), WithOutput(TRUE)} :
        InitFrom([w EXCEPT !.fault = f])

NextFault ==
    \/ \E c \in Surfaces : Attach(c)
    \/ Detach
    \/ Dispose
    \/ \E ch \in {"ready", "exit"} : Register(ch, 1)
    \/ \E t \in tasks : TaskFinally(t)
    \/ \E t \in tasks : SaveAnswered(t, "ok")
    \/ PtyExit

SpecFault == InitFault /\ [][NextFault]_vars

\* C11 (as claimed): whichever single step throws, the first dispose() carries out
\* every step: the kill is requested, the timer is stopped, the cleanup list is run
\* and emptied, and the four registries are empty.
C11_TeardownCompletes ==
    [][Dispose /\ ~disposed =>
          /\ teardown' = AllSteps
          /\ killCalls' = killCalls + 1
          /\ ~snapshotTimer'
          /\ disposables' = <<>>
          /\ \A ch \in Channels : listeners'[ch] = <<>>]_vars

\* ------------------------------------------------------------ SpecAttach: surfaces
\* A running session, before and after its first output, is attached to two
\* surfaces, detached and disposed in any order while its captures are saved and
\* the clock moves within the debounce window; the public calls are recorded.
InitAttach ==
    \E w \in {Started(TRUE), WithOutput(TRUE)} : InitFrom([w EXCEPT !.lastCall = NoCall])

NextAttach ==
    \/ \E c \in Surfaces : Attach(c)
    \/ Detach
    \/ Dispose
    \/ \E t \in tasks : TaskFinally(t)
    \/ \E t \in tasks : SaveAnswered(t, "ok")
    \/ Advance(TimeStepMs)

SpecAttach == InitAttach /\ [][NextAttach]_vars

\* The render container is inside the attached surface, or in the holding area when
\* no surface is attached; the resize observer exists exactly while attached.
Placement ==
    /\ attachedContainer \in Surfaces \cup {NoContainer}
    /\ containerParent = IF attachedContainer # NoContainer THEN attachedContainer ELSE Host
    /\ resizeObserver <=> attachedContainer # NoContainer

\* The debounce would skip a detach capture made now.
DetachDebounced ==
    /\ lastSnapshotReason = "detach"
    /\ lastSnapshotAt # 0
    /\ now - lastSnapshotAt < DEBOUNCE_MS

\* C13: at every instant at most one surface is attached and the container is in
\* exactly one place, the attached surface or else the holding area; a step that
\* moves the session from one surface to another triggers a detach-tagged capture
\* (a capture task unless the debounce skips it) and ends attached to the new one.
C13_SingleAttachment ==
    /\ []Placement
    /\ [][/\ attachedContainer \in Surfaces
          /\ attachedContainer' \in Surfaces
          /\ attachedContainer' # attachedContainer
          => /\ lastCapture'.reason = "detach"
             /\ lastCapture'.outcome = IF DetachDebounced THEN "debounced"
                                       ELSE IF buffer = <<>> THEN "abandoned"
                                       ELSE "saving"
             /\ ~DetachDebounced => /\ Cardinality(NewTasks) = 1
                                    /\ \A t \in NewTasks : t.reason = "detach"
             /\ containerParent' = attachedContainer'
             /\ resizeObserver']_vars

\* C13 witness: attach(B) was called on a session attached to A, which is now
\* attached to B and has triggered a detach capture.
C13_Witness ==
    /\ lastCall = [op |-> "attach", arg |-> "B", attached |-> "A", disposed |-> FALSE]
    /\ attachedContainer = "B"
    /\ containerParent = "B"
    /\ lastCapture.reason = "detach"

\* C14: detach() on a session that is not attached changes nothing: attachment,
\* observer, container, snapshot bookkeeping and capture tasks are as before.
C14_DetachUnattached ==
    [][Detach /\ attachedContainer = NoContainer =>
          /\ UNCHANGED sessionView
          /\ NewTasks = {}]_vars

\* C14 witness: detach() was called on a session that was not attached and not
\* disposed, after an earlier attachment had been captured.
C14_Witness ==
    /\ lastCall = [op |-> "detach", arg |-> "none", attached |-> NoContainer, disposed |-> FALSE]
    /\ lastSnapshotReason = "detach"
    /\ opened

\* C15: attach(surface) on a session that is not disposed and is attached to that
\* surface changes nothing: no detach, no capture, no observer, no size sent.
C15_AttachSame ==
    [][\A c \in Surfaces :
          Attach(c) /\ ~disposed /\ attachedContainer = c =>
              /\ UNCHANGED sessionView
              /\ thrown' = "none"]_vars

\* C15 witness: attach(A) was called on a session attached to A.
C15_Witness ==
    /\ lastCall = [op |-> "attach", arg |-> "A", attached |-> "A", disposed |-> FALSE]
    /\ attachedContainer = "A"
    /\ resizeObserver

\* C16: attach(surface) on a disposed session throws the illegal-state error and
\* changes nothing, whichever surface is given.
C16_AttachDisposed ==
    [][\A c \in Surfaces :
          Attach(c) /\ disposed =>
              /\ thrown' = "IllegalState"
              /\ UNCHANGED sessionView]_vars

\* C16 witness: attach(A) was called on a disposed session that had been attached
\* to A, and threw.
C16_Witness ==
    /\ lastCall = [op |-> "attach", arg |-> "A", attached |-> NoContainer, disposed |-> TRUE]
    /\ thrown = "IllegalState"
    /\ size = SurfaceSize("A")
    /\ attachedContainer = NoContainer

\* C20: a start that fails, by a not-ok result or by a rejection, invokes each error
\* listener once with the failure message; it fires no ready, does not mark the
\* session running, is followed by no second start request, and no exception
\* leaves the handler.
C20_FailedStart ==
    /\ [](/\ emitCount.error <= 1
          /\ startCalls <= 1
          /\ phase = "failed" => ~ptyStarted /\ emitCount.ready = 0)
    /\ [][\A answer \in {"notok", "reject"} :
            StartAnswered(answer) =>
                /\ lastEmit'.channel = "error"
                /\ lastEmit'.registered = listeners.error
                /\ lastEmit'.invoked = listeners.error
                /\ lastEmit'.message = Failure(answer)
                /\ emitCount'.error = 1
                /\ emitCount'.ready = 0
                /\ ~ptyStarted'
                /\ startCalls' = startCalls
                /\ thrown' = "none"]_vars

\* C20 witness: a rejected start was reported once to two error listeners, the
\* second of which threw.
C20_Witness ==
    /\ phase = "failed"
    /\ lastEmit.channel = "error"
    /\ lastEmit.invoked = <<1, 2>>
    /\ lastEmit.caught = 1
    /\ lastEmit.message = Failure("reject")
    /\ emitCount = [ready |-> 0, error |-> 1]
    /\ ~ptyStarted

\* ------------------------------------------------------------ claims on process exit
\* C21 (as claimed): when the transport signals the exit of the process, every exit
\* listener registered at that moment is invoked and the session is no longer marked
\* running; once the process has exited, no ptyInput request is made.
C21_ExitStopsInput ==
    /\ [][PtyExit /\ "exit" \in subs =>
             /\ lastEmit'.channel = "exit"
             /\ lastEmit'.invoked = listeners.exit
             /\ ~ptyStarted']_vars
    /\ [][proc = "exited" => inputCalls' = inputCalls]_vars

\* ------------------------------------------------------------ claims on the empty buffer
\* The payload a capture made now would hand to the store.
PayloadNow ==
    [version |-> TERMINAL_SNAPSHOT_VERSION, cols |-> size[1], rows |-> size[2],
     data |-> serialize(World)]

\* A step sent the store one save request, tagged reason, carrying the payload of
\* the state it started from.
SavesNow(reason) ==
    /\ Cardinality(NewSaves) = 1
    /\ \A t \in NewSaves : t.reason = reason /\ t.payload = PayloadNow

\* C22 (as claimed): with an empty buffer, a detach-tagged capture that is not
\* debounced sends no save request, an interval-tagged capture sends one with the
\* empty data and the current cols/rows, and so does the dispose-tagged capture of
\* the first dispose().
C22_EmptyBufferRule ==
    [][hasSaveApi /\ buffer = <<>> /\ ~disposed =>
          /\ DetachStep /\ ~DetachDebounced =>
                 /\ NewSaves = {}
                 /\ lastCapture' = [reason |-> "detach", outcome |-> "abandoned"]
          /\ IntervalTick => SavesNow("interval")
          /\ Dispose => SavesNow("dispose")]_vars

\* ------------------------------------------------------------ SpecSave: failing saves
\* A running session that has shown output, with a store that saves, answers not-ok
\* or rejects, and a serializer that works or throws: interval and detach captures
\* are taken while the user types and an error listener is registered.
InitSave ==
    \E f \in {"none", SerializeFault} : InitFrom([WithOutput(TRUE) EXCEPT !.fault = f])

NextSave ==
    \/ Attach("A")
    \/ Detach
    \/ IntervalTick
    \/ \E t \in tasks : TaskFinally(t)
    \/ \E t \in tasks, answer \in Answers : SaveAnswered(t, answer)
    \/ UserInput(<<"x">>)
    \/ Register("error", 1)
    \/ Advance(SNAPSHOT_INTERVAL_MS)

SpecSave == InitSave /\ [][NextSave]_vars

\* C23: a save that fails (not-ok answer, rejected call, throwing serializer) ends
\* its task without an exception and without an error fan-out; the guardrail's
\* counter is reset only by a save the store accepted, while lastSnapshotAt and
\* lastSnapshotReason are set when any capture task completes; input is forwarded,
\* attach and detach take effect and new capture tasks are created as before.
C23_FailedSaveSwallowed ==
    /\ [](thrown = "none" /\ emitCount.error = 0 /\ lastEmit.channel # "error")
    /\ [][\A t \in tasks :
             /\ \A answer \in Answers :
                   SaveAnswered(t, answer) =>
                       /\ t \notin tasks'
                       /\ windowBytes' = IF answer = "ok" THEN 0 ELSE windowBytes
                       /\ stored' = IF answer = "ok" THEN t.payload ELSE stored
                       /\ lastSnapshotAt' = now
                       /\ lastSnapshotReason' = t.reason
             /\ TaskFinally(t) =>
                   /\ t \notin tasks'
                   /\ windowBytes' = windowBytes
                   /\ stored' = stored
                   /\ lastSnapshotAt' = now
                   /\ lastSnapshotReason' = t.reason]_vars
    /\ [][/\ UserInput(<<"x">>) => inputCalls' = inputCalls + 1
          /\ Attach("A") /\ attachedContainer = NoContainer =>
                 attachedContainer' = "A" /\ resizeObserver'
          /\ Detach /\ attachedContainer # NoContainer =>
                 /\ attachedContainer' = NoContainer
                 /\ ~DetachDebounced => Cardinality(NewTasks) = 1
          /\ IntervalTick => Cardinality(NewTasks) = 1]_vars

\* C23 witness: an interval capture has completed without the store holding a
\* snapshot and without the counter being reset; since then the session was attached
\* and detached, the detach capture awaits the store, and a keystroke was forwarded.
C23_Witness ==
    /\ lastSnapshotReason = "interval"
    /\ lastSnapshotAt # 0
    /\ stored = NoSnapshot
    /\ windowBytes # 0
    /\ \E t \in tasks : t.reason = "detach" /\ t.stage = "saving"
    /\ inputCalls = 1
    /\ thrown = "none"

\* ------------------------------------------------------------ SpecResize: container resizes
\* A running session that has shown output is attached to either surface and
\* detached while the layout resizes surface A (observed or not), detach captures
\* are saved and the clock moves past the debounce window, short of the first
\* interval tick.
InitResize == InitFrom(WithOutput(TRUE))

NextResize ==
    \/ \E c \in Surfaces : Attach(c)
    \/ Detach
    \/ \E box \in Boxes : ContainerResize("A", box)
    \/ \E t \in tasks : SaveAnswered(t, "ok")
    \/ Advance(TimeStepMs)

SpecResize == InitResize /\ [][NextResize]_vars

\* C24: while the session is attached, running and not disposed, a resize of the
\* attached surface that changes the terminal's size sends the transport one resize
\* request with the new cols and rows; the snapshot a detach then saves carries the
\* size the surface had last, which is the size last sent to the transport.
C24_ResizeForwardedThenSaved ==
    /\ [][\A c \in Surfaces, box \in Boxes :
            /\ ContainerResize(c, box)
            /\ attachedContainer = c
            /\ ptyStarted /\ ~disposed
            /\ box # size
            => /\ size' = box
               /\ ptySize' = box]_vars
    /\ [][DetachStep /\ ptyStarted =>
             \A t \in NewSaves :
                 /\ t.reason = "detach"
                 /\ <<t.payload.cols, t.payload.rows>> = layout[attachedContainer]
                 /\ <<t.payload.cols, t.payload.rows>> = ptySize]_vars

\* C24 witness: surface A was resized to 100 x 40 while attached, the transport was
\* sent that size, and the snapshot the following detach saved carries it.
C24_Witness ==
    /\ layout["A"] = <<100, 40>>
    /\ ptySize = <<100, 40>>
    /\ stored # NoSnapshot
    /\ stored.cols = 100 /\ stored.rows = 40
    /\ lastSnapshotReason = "detach"
    /\ attachedContainer = NoContainer

\* ------------------------------------------------------------ SpecSize: size synchronisation
\* A snapshot an earlier session saved at a size no surface has.
Earlier == [version |-> TERMINAL_SNAPSHOT_VERSION, cols |-> 90, rows |-> 20,
            data |-> <<"half">>]

\* A new session without a save API, whose store is empty or holds Earlier: the
\* restore, the start and its late confirmation, the exit, attach and detach, frames
\* and resizes of surface A interleave in every order until the session is disposed.
InitSize == \E snapshot \in {NoSnapshot, Earlier} : InitFrom(Constructed(snapshot, FALSE, TRUE))

NextSize ==
    \/ \E response \in {"ok", "notok"} : RestoreDone(response)
    \/ StartAnswered("ok")
    \/ PtyStartedLate
    \/ PtyExit
    \/ \E c \in Surfaces : Attach(c)
    \/ Detach
    \/ RafFrame
    \/ \E box \in Boxes : ContainerResize("A", box)
    \/ Dispose

SpecSize == InitSize /\ [][NextSize]_vars

\* C25: whenever the session is marked running and not disposed, the size of the
\* last resize request equals the terminal's cols and rows; the start
\* acknowledgment of a session that is not disposed sends the size the terminal has
\* then, whatever changed it before.
C25_SizeSynchronised ==
    /\ [](ptyStarted /\ ~disposed => ptySize = size)
    /\ [][StartAnswered("ok") /\ ~disposed =>
             /\ ptyStarted'
             /\ size' = size
             /\ ptySize' = size]_vars

\* C25 witness: the restore resized the terminal to 90 x 20 before the start, the
\* start request carried the initial size, and the running session has sent 90 x 20.
C25_Witness ==
    /\ ptyStarted /\ ~disposed
    /\ ~opened
    /\ startSize = InitialSize
    /\ size = <<90, 20>>
    /\ ptySize = <<90, 20>>

====
